---- MODULE Spec2Model ----
(***************************************************************************)
(* Model of the audio recording session of SLPScribe: the MakeRecording    *)
(* component of AudioRecorder.jsx (src/unnamed/part_000).                  *)
(*                                                                         *)
(* Every call of startRecording is one session.  A session owns the        *)
(* closure variables of that call (audioStream, capturedRecordings,        *)
(* mediaRecorder, startTime).  The component owns the React state          *)
(* (isRecording, audioBlob, audioBlobURL, recordingDuration) and the ref   *)
(* mediaRecorderRef.  The platform (getUserMedia, MediaRecorder, Blob,     *)
(* URL, Date) is the environment: it resolves or rejects the device        *)
(* request, dispatches dataavailable and stop events on one event queue,   *)
(* may end the stream's track, and advances the wall clock.                *)
(***************************************************************************)
EXTENDS Integers, Sequences, FiniteSets, TLC

\* ---- bounds of the model ------------------------------------------------
MaxSessions == 2   \* calls of startRecording
MaxFrags    == 2   \* dataavailable events dispatched in all
FragLen     == 1   \* samples carried by one fragment
TickMs      == 1500 \* one step of the wall clock, in milliseconds
MaxTicks    == 1   \* steps of the wall clock

\* ---- program constants --------------------------------------------------
MsPerSecond == 1000

VARIABLES
  sess,              \* one record per startRecording call (its closure)
  isRecording,       \* useState(false)
  mediaRecorderRef,  \* useRef(): 0 is undefined, else the session whose recorder it holds
  audioBlob,         \* useState(null): 0 is null, else an index into blobs
  audioBlobURL,      \* useState(null): 0 is null, else an object URL
  recordingDuration, \* useState(0)
  blobs,             \* the Blob objects constructed so far (immutable values)
  objectURLs,        \* object URLs allocated by URL.createObjectURL and not revoked
  now                \* Date.now()

vars == <<sess, isRecording, mediaRecorderRef, audioBlob, audioBlobURL,
          recordingDuration, blobs, objectURLs, now>>

Sessions == 1..Len(sess)

\* DOMException names getUserMedia rejects with
PermissionDenied  == "NotAllowedError"
DeviceUnavailable == "NotFoundError"
FailureKinds == {PermissionDenied, DeviceUnavailable}

RECURSIVE Flatten(_)
\* the bytes of a sequence of fragments, in order
Flatten(parts) ==
  IF parts = <<>> THEN <<>> ELSE Head(parts) \o Flatten(Tail(parts))

\* new Blob(parts): a new immutable value holding the concatenated parts
Blob(parts) == Flatten(parts)

\* Array.prototype.push
push_Front(arr, x) == <<x>> \o arr
push(arr, x) == Append(arr, x)

\* new Error(message, options): only options.cause is read
Error(message, options) ==
  [message |-> message,
   cause   |-> IF "cause" \in DOMAIN options THEN options.cause ELSE "none"]

\* Math.floor((Date.now() - startTime) / 1000)
elapsedSeconds_Ceil(t, startTime) == (t - startTime + MsPerSecond - 1) \div MsPerSecond
elapsedSeconds(t, startTime) == (t - startTime) \div MsPerSecond

\* const capturedRecordings = []
capturedRecordings_Shared ==
  IF mediaRecorderRef = 0 THEN <<>> ELSE sess[mediaRecorderRef].chunks
capturedRecordings == <<>>

\* the closure of a startRecording call that is awaiting getUserMedia.
\* phase is the position of the call and of its recorder: "acquiring" (at
\* the await), "failed" (the catch block ran), "recording", "stopping" (the
\* recorder is inactive and its stop event is queued), "inactive" (onstop
\* ran).  live: the granted stream has a live track.  The last four fields
\* are history: interrupted (the device failed), delivered (the fragments
\* dispatched to the recorder), atStop and stopAt (the number of fragments
\* dispatched, and the clock, when the recorder left "recording").
Pending ==
  [phase |-> "acquiring", live |-> FALSE, chunks |-> <<>>, startTime |-> 0,
   thrown |-> [message |-> "none", cause |-> "none"],
   failure |-> "none", interrupted |-> FALSE, delivered |-> <<>>,
   atStop |-> 0, stopAt |-> 0]

Init ==
  /\ sess = <<>>
  /\ isRecording = FALSE
  /\ mediaRecorderRef = 0
  /\ audioBlob = 0
  /\ audioBlobURL = 0
  /\ recordingDuration = 0
  /\ blobs = <<>>
  /\ objectURLs = {}
  /\ now = 0

\* the NotListening button is rendered, and clicked: startRecording runs up
\* to its await
StartRecording ==
  /\ ~isRecording
  /\ Len(sess) < MaxSessions
  /\ sess' = Append(sess, Pending)
  /\ UNCHANGED <<isRecording, mediaRecorderRef, audioBlob, audioBlobURL,
                 recordingDuration, blobs, objectURLs, now>>

\* getUserMedia resolves: the rest of the try block
Granted(h) ==
  /\ sess[h].phase = "acquiring"
  /\ sess' = [sess EXCEPT ![h] =
               [@ EXCEPT !.phase = "recording", !.live = TRUE,
                         !.chunks = capturedRecordings, !.startTime = now]]
  /\ isRecording' = TRUE
  /\ mediaRecorderRef' = h
  /\ UNCHANGED <<audioBlob, audioBlobURL, recordingDuration, blobs,
                 objectURLs, now>>

\* getUserMedia rejects: the catch block
Denied(h, kind) ==
  /\ sess[h].phase = "acquiring"
  /\ sess' = [sess EXCEPT ![h] =
               [@ EXCEPT !.phase = "failed", !.failure = kind,
                         !.thrown = Error("Failed to start recording:",
                                          [name |-> kind])]]
  /\ isRecording' = FALSE
  /\ UNCHANGED <<mediaRecorderRef, audioBlob, audioBlobURL,
                 recordingDuration, blobs, objectURLs, now>>

RECURSIVE SumLen(_, _)
SumLen(ss, k) == IF k = 0 THEN 0 ELSE Len(ss[k].delivered) + SumLen(ss, k - 1)
\* the number of dataavailable events dispatched so far
Delivered == SumLen(sess, Len(sess))

\* the number of samples the stream of session h has produced
Produced(h) == Len(Flatten(sess[h].delivered))

\* the fragment the stream of session h produces next
NextFragment(h) == [i \in 1..FragLen |-> <<h, Produced(h) + i>>]

\* mediaRecorder.ondataavailable
ondataavailable_DropAfterStop(s, data) ==
  IF s.phase = "stopping" THEN s ELSE [s EXCEPT !.chunks = push(@, data)]
ondataavailable(s, data) == [s EXCEPT !.chunks = push(@, data)]

\* the platform dispatches dataavailable on the recorder of session h
DataAvailable(h) ==
  /\ sess[h].phase \in {"recording", "stopping"}
  /\ Delivered < MaxFrags
  /\ LET data == NextFragment(h)
     IN sess' = [sess EXCEPT ![h] =
                  [ondataavailable(@, data) EXCEPT
                     !.delivered = Append(@, data)]]
  /\ UNCHANGED <<isRecording, mediaRecorderRef, audioBlob, audioBlobURL,
                 recordingDuration, blobs, objectURLs, now>>

\* MediaRecorder.stop(): nothing on an inactive recorder, else the recorder
\* goes inactive and a task that fires dataavailable and stop is queued
RecorderStop(s) ==
  IF s.phase = "recording"
  THEN [s EXCEPT !.phase = "stopping", !.atStop = Len(s.delivered),
                 !.stopAt = now]
  ELSE s

\* the RecordingInProgress button is rendered, and clicked
StopRecording ==
  /\ isRecording
  /\ isRecording' = FALSE
  /\ sess' = IF mediaRecorderRef = 0 THEN sess
             ELSE [sess EXCEPT ![mediaRecorderRef] = RecorderStop(@)]
  /\ UNCHANGED <<mediaRecorderRef, audioBlob, audioBlobURL,
                 recordingDuration, blobs, objectURLs, now>>

\* URL.createObjectURL: the locator u is allocated
createObjectURL(urls, u) == urls \cup {u}

\* mediaRecorder.onstop
OnStop(h) ==
  /\ sess[h].phase = "stopping"
  /\ LET blob == [session |-> h, data |-> Blob(sess[h].chunks)]
         url  == Len(blobs) + 1
     IN /\ blobs' = Append(blobs, blob)
        /\ objectURLs' = createObjectURL(objectURLs, url)
        /\ audioBlobURL' = url
        /\ audioBlob' = Len(blobs) + 1
  /\ recordingDuration' = elapsedSeconds(now, sess[h].startTime)
  /\ sess' = [sess EXCEPT ![h] = [@ EXCEPT !.phase = "inactive", !.stopAt = 0]]
  /\ UNCHANGED <<isRecording, mediaRecorderRef, now>>

\* the device fails or is disconnected while the recorder of session h is
\* recording: the track ends, the recorder goes inactive and the platform
\* queues the task that fires dataavailable and stop
DeviceFail(h) ==
  /\ sess[h].phase = "recording"
  /\ sess' = [sess EXCEPT ![h] =
               [@ EXCEPT !.phase = "stopping", !.live = FALSE,
                         !.interrupted = TRUE,
                         !.atStop = Len(sess[h].delivered), !.stopAt = now]]
  /\ UNCHANGED <<isRecording, mediaRecorderRef, audioBlob, audioBlobURL,
                 recordingDuration, blobs, objectURLs, now>>

\* the wall clock advances
Tick ==
  /\ now + TickMs <= MaxTicks * TickMs
  /\ now' = now + TickMs
  /\ UNCHANGED <<sess, isRecording, mediaRecorderRef, audioBlob, audioBlobURL,
                 recordingDuration, blobs, objectURLs>>

Next ==
  \/ StartRecording
  \/ \E h \in Sessions : Granted(h)
  \/ \E h \in Sessions : \E kind \in FailureKinds : Denied(h, kind)
  \/ \E h \in Sessions : DataAvailable(h)
  \/ StopRecording
  \/ \E h \in Sessions : OnStop(h)
  \/ \E h \in Sessions : DeviceFail(h)
  \/ Tick

Spec == Init /\ [][Next]_vars

\* the event loop dispatches every queued stop event
FairSpec ==
  Spec /\ \A h \in 1..MaxSessions : WF_vars(h \in Sessions /\ OnStop(h))

TypeOK ==
  /\ isRecording \in BOOLEAN
  /\ mediaRecorderRef \in 0..Len(sess)
  /\ audioBlob \in 0..Len(blobs)
  /\ now \in 0..(MaxTicks * TickMs)

\* ---- the states of the session state machine ----------------------------
\* the state of the session state machine session h is in
SessionState(h) ==
  CASE sess[h].phase = "acquiring" -> "Acquiring"
    [] sess[h].phase = "failed"    -> "Error"
    [] sess[h].interrupted         -> "Error"
    [] sess[h].phase = "recording" -> "Recording"
    [] sess[h].phase = "stopping"  -> "Finalizing"
    [] OTHER                       -> "Ready"

\* the sessions whose device handle (the granted stream) is open
OpenHandles == {h \in Sessions : sess[h].live}

\* a step that constructs an artifact
Emits == Len(blobs') = Len(blobs) + 1
\* the artifact such a step constructs
Emitted == blobs'[Len(blobs')]

C2_StartRejectedWhileActive ==
  [][(\E h \in Sessions :
        SessionState(h) \in {"Acquiring", "Recording", "Finalizing"})
     => Len(sess') = Len(sess)]_vars

\* ---- C3 -----------------------------------------------------------------
\* C3: at most one device handle is open, and no acquisition is requested
\* while a handle is open.
C3_SingleHandle ==
  [][/\ Cardinality(OpenHandles') <= 1
     /\ (Len(sess') > Len(sess) => OpenHandles = {})]_vars

\* ---- C4 -----------------------------------------------------------------
\* C4: a device handle is open only while its session is Recording.
C4_HandleOnlyWhileRecording ==
  \A h \in OpenHandles : SessionState(h) = "Recording"

\* ---- C5 -----------------------------------------------------------------
\* C5: a session whose device failed while Recording has discarded its
\* fragments and has no artifact.
C5_InterruptedDiscarded ==
  \A h \in Sessions :
    sess[h].interrupted =>
      /\ sess[h].chunks = <<>>
      /\ \A i \in 1..Len(blobs) : blobs[i].session # h

\* ---- C6 -----------------------------------------------------------------
\* C6: when the acquisition of a session fails, the error the session
\* surfaces carries the failure kind, no artifact is produced, the held
\* artifact is unchanged and start is available again.
C6_FailureCarriesKind ==
  [][\A h \in Sessions :
       (sess[h].phase = "acquiring" /\ sess'[h].phase = "failed") =>
         /\ sess'[h].thrown.cause = sess'[h].failure
         /\ blobs' = blobs
         /\ audioBlob' = audioBlob
         /\ ~isRecording']_vars

\* ---- C7 -----------------------------------------------------------------
\* C7: a stop takes effect only while a session is Recording; in any other
\* state it changes nothing.
C7_StopRejectedUnlessRecording ==
  [][StopRecording => \E h \in Sessions : SessionState(h) = "Recording"]_vars

C10_Isolated ==
  [][/\ \A i \in 1..Len(blobs) : Len(blobs') >= i /\ blobs'[i] = blobs[i]
     /\ \A i \in 1..Len(blobs') :
          \A k \in 1..Len(blobs'[i].data) :
            blobs'[i].data[k][1] = blobs'[i].session]_vars

\* two artifacts of two sessions, each holding a fragment
C10_Witness ==
  /\ Len(blobs) = 2
  /\ blobs[1].session # blobs[2].session
  /\ blobs[1].data # <<>>
  /\ blobs[2].data # <<>>

\* ---- C11 ----------------------------------------------------------------
\* a session whose stop was accepted reaches Ready with exactly one artifact
C11_EventuallyReady ==
  \A h \in 1..MaxSessions :
    (h \in Sessions /\ SessionState(h) = "Finalizing")
      ~> (/\ h \in Sessions
          /\ SessionState(h) = "Ready"
          /\ Cardinality({i \in 1..Len(blobs) : blobs[i].session = h}) = 1)

\* an artifact is constructed only by the step that takes its session from
\* Finalizing to Ready
C11_OnlyOnFinalizing ==
  [][Emits =>
       \E h \in Sessions :
         /\ h = Emitted.session
         /\ SessionState(h) = "Finalizing"
         /\ SessionState(h)' = "Ready"]_vars

\* C11: under fair dispatch every stop accepted while Recording is followed
\* by Ready with exactly one artifact of that session, and an artifact is
\* emitted only on the transition from Finalizing to Ready.
C11_StopLeadsToReady == C11_EventuallyReady /\ C11_OnlyOnFinalizing

\* ---- C12 ----------------------------------------------------------------
\* C12: the only locator allocated and not released is the one of the
\* artifact the consumer holds, so the number of unreleased locators does
\* not grow with the number of recordings.
C12_LocatorsReleased ==
  /\ objectURLs \subseteq {audioBlobURL}
  /\ Cardinality(objectURLs) <= 1
====
